---- MODULE Spec2Model ----
(***************************************************************************)
(* Model of langchain_parallel_web: the credential resolver                *)
(* (_client.get_api_key), the extract client adapters                      *)
(* (_client.ParallelExtractClient / AsyncParallelExtractClient), the       *)
(* extract tool (extract_tool.ParallelExtractTool), the search client      *)
(* adapters (_client.ParallelSearchClient / AsyncParallelSearchClient) and *)
(* the search tool (search_tool.ParallelWebSearchTool).                    *)
(*                                                                         *)
(* Python values are represented as follows.                               *)
(*   Optional[T]   a sequence of length 0 (None) or 1 (the value)          *)
(*   str           a TLA+ string, concatenated with \o                     *)
(*   list          a sequence                                              *)
(*   dict          a function whose DOMAIN is the set of keys present      *)
(***************************************************************************)
EXTENDS Integers, Sequences, FiniteSets, TLC

VARIABLES
    env,      \* os.environ restricted to the API-key variables
    vendor,   \* what the vendor SDK's beta.extract / beta.search does when
              \* invoked
    tool,     \* the tool instance, if one was constructed
    last,     \* the last operation performed, its arguments and its outcome
    sdk,      \* vendor SDK activity of the last operation, in order
    calls     \* the extract calls in flight on the tool instance, each with
              \* its position in _run / _arun and its local variables

vars == <<env, vendor, tool, last, sdk, calls>>

(***************************************************************************)
(* Bounds of the model                                                     *)
(***************************************************************************)
MaxItems == 2      \* records (successes + errors) in one vendor response
MaxExcerpts == 2   \* excerpts in one success record
MaxUrls == 2       \* urls in one extract request
MaxCalls == 2      \* concurrent calls on one tool instance

(***************************************************************************)
(* Python values                                                           *)
(***************************************************************************)
Null == <<>>
Some(v) == <<v>>

\* truthiness of an Optional[str]: None and "" are falsy
Truthy(o) == o # Null /\ o[1] # ""

\* truthiness of an Optional[list]: None and [] are falsy
TruthyList(o) == o # Null /\ o[1] # <<>>

\* truthiness of an Optional[int]: None and 0 are falsy
TruthyInt(o) == o # Null /\ o[1] # 0

\* dict.get(k) and dict.get(k, default)
GetDefault(d, k, default) == IF k \in DOMAIN d THEN d[k] ELSE default
Get(d, k) == GetDefault(d, k, Null)

\* d[k] = v
SetItem(d, k, v) == (k :> v) @@ d

\* str(v) as applied by an f-string to an Optional[str]
PyStr(o) == IF o = Null THEN "None" ELSE o[1]

\* sep.join(list)
RECURSIVE Join(_, _)
Join(sep, list) ==
    IF list = <<>> THEN ""
    ELSE IF Len(list) = 1 THEN list[1]
    ELSE list[1] \o sep \o Join(sep, Tail(list))

\* outcomes of a function call
Returned(v) == [kind |-> "returned", value |-> v]
Raised(exc, msg) == [kind |-> "raised", exc |-> exc, msg |-> msg]

(***************************************************************************)
(* _client.get_api_key                                                     *)
(***************************************************************************)
ApiKeyEnvVar == "PARALLEL_API_KEY"
DocEnvVar == "PARALLEL_AI_API_KEY"
EnvNames == {ApiKeyEnvVar, DocEnvVar}

\* the variable named in the error message (a second literal in the source)
MsgEnvVar == "PARALLEL_API_KEY"
MissingKeyHead ==
    "Parallel API key not found. Please pass it as an argument or set the "
MissingKeyTail == " environment variable."
MissingKeyMsg == MissingKeyHead \o MsgEnvVar \o MissingKeyTail

\* variant: the environment variable takes precedence over the argument
get_api_key_env_first(api_key, e) ==
    IF Truthy(e[ApiKeyEnvVar]) THEN Returned(e[ApiKeyEnvVar][1])
    ELSE IF Truthy(api_key) THEN Returned(api_key[1])
    ELSE Raised("ValueError", MissingKeyMsg)

get_api_key(api_key, e) ==
    IF Truthy(api_key) THEN Returned(api_key[1])
    ELSE IF Truthy(e[ApiKeyEnvVar]) THEN Returned(e[ApiKeyEnvVar][1])
    ELSE Raised("ValueError", MissingKeyMsg)

(***************************************************************************)
(* _client.ParallelExtractClient / AsyncParallelExtractClient              *)
(***************************************************************************)
DefaultBaseUrl == "https://api.parallel.ai"
NoUrlsMsg == "At least one URL must be provided"
SecondsPerUrl == 5
ExtractBetas == <<"search-extract-2025-10-10">>

\* the vendor SDK client constructed by get_extract_client (isAsync = FALSE)
\* or get_async_extract_client (isAsync = TRUE)
SdkClient(isAsync, api_key, base_url) ==
    [ev |-> IF isAsync THEN "AsyncParallel" ELSE "Parallel",
     api_key |-> api_key, base_url |-> base_url]

\* variant: the timeout counts each distinct url once
SdkExtractDistinctUrls(urls, objective, search_queries, excerpts, full_content, fetch_policy) ==
    [ev |-> "beta.extract", urls |-> urls, objective |-> objective,
     search_queries |-> search_queries, excerpts |-> excerpts,
     full_content |-> full_content, fetch_policy |-> fetch_policy,
     betas |-> ExtractBetas,
     timeout |-> SecondsPerUrl
                    * Cardinality({urls[i] : i \in 1..Len(urls)})]

\* the keyword arguments of client.beta.extract
SdkExtract(urls, objective, search_queries, excerpts, full_content, fetch_policy) ==
    [ev |-> "beta.extract", urls |-> urls, objective |-> objective,
     search_queries |-> search_queries, excerpts |-> excerpts,
     full_content |-> full_content, fetch_policy |-> fetch_policy,
     betas |-> ExtractBetas, timeout |-> SecondsPerUrl * Len(urls)]

\* variant: the urls list is not checked
ClientExtractUnchecked(urls, objective, search_queries, excerpts, full_content, fetch_policy, beh) ==
    LET req == SdkExtract(urls, objective, search_queries, excerpts,
                          full_content, fetch_policy)
    IN  IF beh.kind = "raise"
        THEN [out |-> Raised(beh.exc, beh.msg), sdk |-> <<req>>]
        ELSE [out |-> Returned(beh.body), sdk |-> <<req>>]

\* ParallelExtractClient.extract: the outcome and the SDK invocations made,
\* given the vendor's behaviour
ClientExtract(urls, objective, search_queries, excerpts, full_content, fetch_policy, beh) ==
    IF urls = <<>>
    THEN [out |-> Raised("ValueError", NoUrlsMsg), sdk |-> <<>>]
    ELSE LET req == SdkExtract(urls, objective, search_queries, excerpts,
                               full_content, fetch_policy)
         IN  IF beh.kind = "raise"
             THEN [out |-> Raised(beh.exc, beh.msg), sdk |-> <<req>>]
             ELSE [out |-> Returned(beh.body), sdk |-> <<req>>]

(***************************************************************************)
(* _client: search adapters                                                *)
(***************************************************************************)
NoObjectiveMsg == "Either 'objective' or 'search_queries' must be provided"

\* variant: the short timeout is kept for the base processor only
_get_search_timeout_base_only(processor) ==
    IF processor = "base" THEN 10 ELSE 90

\* "return 90.0 if processor == 'pro' else 10.0"
_get_search_timeout(processor) == IF processor = "pro" THEN 90 ELSE 10

\* the keyword arguments of client.beta.search
SdkSearch(objective, search_queries, processor, max_results, max_chars_per_result, source_policy) ==
    [ev |-> "beta.search", objective |-> objective,
     search_queries |-> search_queries, processor |-> processor,
     max_results |-> max_results,
     max_chars_per_result |-> max_chars_per_result,
     source_policy |-> source_policy,
     timeout |-> _get_search_timeout(processor)]

\* variant: an objective is required, whatever the queries are
ClientSearchObjectiveOnly(objective, search_queries, processor, max_results, max_chars_per_result, source_policy, beh) ==
    IF ~Truthy(objective)
    THEN [out |-> Raised("ValueError", NoObjectiveMsg), sdk |-> <<>>]
    ELSE LET req == SdkSearch(objective, search_queries, processor,
                              max_results, max_chars_per_result,
                              source_policy)
         IN  IF beh.kind = "raise"
             THEN [out |-> Raised(beh.exc, beh.msg), sdk |-> <<req>>]
             ELSE [out |-> Returned(beh.body), sdk |-> <<req>>]

\* ParallelSearchClient.search: the outcome and the SDK invocations made,
\* given the vendor's behaviour
ClientSearch(objective, search_queries, processor, max_results, max_chars_per_result, source_policy, beh) ==
    IF ~Truthy(objective) /\ ~TruthyList(search_queries)
    THEN [out |-> Raised("ValueError", NoObjectiveMsg), sdk |-> <<>>]
    ELSE LET req == SdkSearch(objective, search_queries, processor,
                              max_results, max_chars_per_result,
                              source_policy)
         IN  IF beh.kind = "raise"
             THEN [out |-> Raised(beh.exc, beh.msg), sdk |-> <<req>>]
             ELSE [out |-> Returned(beh.body), sdk |-> <<req>>]

\* the keyword arguments of the awaited client.beta.search
AsyncSdkSearch(objective, search_queries, processor, max_results, max_chars_per_result, source_policy) ==
    [ev |-> "beta.search", objective |-> objective,
     search_queries |-> search_queries, processor |-> processor,
     max_results |-> max_results,
     max_chars_per_result |-> max_chars_per_result,
     source_policy |-> source_policy,
     timeout |-> _get_search_timeout(processor)]

\* AsyncParallelSearchClient.search
AsyncClientSearch(objective, search_queries, processor, max_results, max_chars_per_result, source_policy, beh) ==
    IF ~Truthy(objective) /\ ~TruthyList(search_queries)
    THEN [out |-> Raised("ValueError", NoObjectiveMsg), sdk |-> <<>>]
    ELSE LET req == AsyncSdkSearch(objective, search_queries, processor,
                                   max_results, max_chars_per_result,
                                   source_policy)
         IN  IF beh.kind = "raise"
             THEN [out |-> Raised(beh.exc, beh.msg), sdk |-> <<req>>]
             ELSE [out |-> Returned(beh.body), sdk |-> <<req>>]

(***************************************************************************)
(* extract_tool: settings objects and parameter normalisation              *)
(***************************************************************************)
\* a Union[bool, settings] argument: a flag or a settings object
Flag(b) == [t |-> "bool", v |-> b]
Settings(fields) == [t |-> "settings", fields |-> fields]
\* what the adapter receives: the flag unchanged, or a plain dict
Dict(d) == [t |-> "dict", d |-> d]

\* BaseModel.model_dump(exclude_none=True): the fields that are not None
model_dump_exclude_none(fields) ==
    [k \in {f \in DOMAIN fields : fields[f] # Null} |-> fields[k][1]]

\* variant: the tool-level limit also fills in settings that carry no limit
full_content_param_default_limit(self, full_content) ==
    IF TruthyInt(self.max_chars_per_extract)
       /\ (\/ full_content.t = "bool"
           \/ full_content.fields["max_chars_per_result"] = Null)
    THEN Dict([max_chars_per_result |-> self.max_chars_per_extract[1]])
    ELSE IF full_content.t = "settings"
    THEN Dict(model_dump_exclude_none(full_content.fields))
    ELSE full_content

\* variant: the tool-level limit is used only when full content is asked for
full_content_param_only_if_true(self, full_content) ==
    IF TruthyInt(self.max_chars_per_extract) /\ full_content = Flag(TRUE)
    THEN Dict([max_chars_per_result |-> self.max_chars_per_extract[1]])
    ELSE IF full_content.t = "settings"
    THEN Dict(model_dump_exclude_none(full_content.fields))
    ELSE full_content

\* "Build full_content config"
full_content_param(self, full_content) ==
    IF TruthyInt(self.max_chars_per_extract) /\ full_content.t = "bool"
    THEN Dict([max_chars_per_result |-> self.max_chars_per_extract[1]])
    ELSE IF full_content.t = "settings"
    THEN Dict(model_dump_exclude_none(full_content.fields))
    ELSE full_content

\* variant: the settings are dumped with their unset fields
excerpts_param_keep_none(excerpts) ==
    IF excerpts.t = "settings"
    THEN Dict([k \in DOMAIN excerpts.fields |-> 0])
    ELSE excerpts

\* "Build excerpts config"
excerpts_param(excerpts) ==
    IF excerpts.t = "settings"
    THEN Dict(model_dump_exclude_none(excerpts.fields))
    ELSE excerpts

\* "Build fetch_policy config" (a FetchPolicy object is always truthy)
fetch_policy_param(fetch_policy) ==
    IF fetch_policy # Null
    THEN Some(model_dump_exclude_none(fetch_policy[1]))
    ELSE Null

(***************************************************************************)
(* extract_tool.ParallelExtractTool._run: response reshaping               *)
(***************************************************************************)
\* variant: excerpts separated by a single newline
ExcerptSepSingle == "\n"
ExcerptSep == "\n\n"
ErrorPrefix == "Error: "
UnknownError == "Unknown error"

\* variant: the joined excerpts are kept as content when both are present
FormatResultExcerptsFirst(result) ==
    LET base == [url |-> Get(result, "url"), title |-> Get(result, "title")]
        withFull ==
            IF "full_content" \in DOMAIN result
            THEN SetItem(SetItem(base, "full_content", result["full_content"]),
                         "content", result["full_content"])
            ELSE base
        withExcerpts ==
            IF "excerpts" \in DOMAIN result /\ result["excerpts"] # Null
            THEN SetItem(SetItem(withFull, "excerpts", result["excerpts"]),
                         "content",
                         Some(Join(ExcerptSep, result["excerpts"][1])))
            ELSE withFull
    IN  IF "publish_date" \in DOMAIN result
        THEN SetItem(withExcerpts, "publish_date", result["publish_date"])
        ELSE withExcerpts

\* the body of "for result in results"
FormatResult(result) ==
    LET base == [url |-> Get(result, "url"), title |-> Get(result, "title")]
        withExcerpts ==
            IF "excerpts" \in DOMAIN result /\ result["excerpts"] # Null
            THEN LET e == SetItem(base, "excerpts", result["excerpts"])
                 IN  IF "full_content" \notin DOMAIN result
                     THEN SetItem(e, "content",
                              Some(Join(ExcerptSep, result["excerpts"][1])))
                     ELSE e
            ELSE base
        withFull ==
            IF "full_content" \in DOMAIN result
            THEN SetItem(SetItem(withExcerpts, "full_content",
                                 result["full_content"]),
                         "content", result["full_content"])
            ELSE withExcerpts
    IN  IF "publish_date" \in DOMAIN result
        THEN SetItem(withFull, "publish_date", result["publish_date"])
        ELSE withFull

\* variant: http_status_code is copied only when the record has it
FormatErrorOptionalStatus(error) ==
    LET item == [url |-> Get(error, "url"),
                 title |-> Null,
                 content |-> Some(ErrorPrefix
                     \o PyStr(GetDefault(error, "error_type",
                                         Some(UnknownError)))),
                 error_type |-> Get(error, "error_type")]
    IN  IF "http_status_code" \in DOMAIN error
        THEN SetItem(item, "http_status_code", error["http_status_code"])
        ELSE item

\* variant: error_type is copied only when the record has one
FormatErrorOptionalType(error) ==
    LET item == [url |-> Get(error, "url"),
                 title |-> Null,
                 content |-> Some(ErrorPrefix
                     \o PyStr(GetDefault(error, "error_type",
                                         Some(UnknownError)))),
                 http_status_code |-> Get(error, "http_status_code")]
    IN  IF "error_type" \in DOMAIN error
        THEN SetItem(item, "error_type", error["error_type"])
        ELSE item

\* variant: the content is the bare error type
FormatErrorNoPrefix(error) ==
    [url |-> Get(error, "url"),
     title |-> Null,
     content |-> Some(PyStr(GetDefault(error, "error_type",
                                       Some(UnknownError)))),
     error_type |-> Get(error, "error_type"),
     http_status_code |-> Get(error, "http_status_code")]

\* one element of the list comprehension "for error in errors"
FormatError(error) ==
    [url |-> Get(error, "url"),
     title |-> Null,
     content |-> Some(ErrorPrefix
                 \o PyStr(GetDefault(error, "error_type", Some(UnknownError)))),
     error_type |-> Get(error, "error_type"),
     http_status_code |-> Get(error, "http_status_code")]

\* variant: the error items are put before the success items
FormatResponseErrorsFirst(extract_response) ==
    LET results == GetDefault(extract_response, "results", <<>>)
        errors == GetDefault(extract_response, "errors", <<>>)
    IN  [i \in 1..Len(errors) |-> FormatError(errors[i])]
            \o [i \in 1..Len(results) |-> FormatResult(results[i])]

\* formatted_results as returned
FormatResponse(extract_response) ==
    LET results == GetDefault(extract_response, "results", <<>>)
        errors == GetDefault(extract_response, "errors", <<>>)
    IN  [i \in 1..Len(results) |-> FormatResult(results[i])]
            \o [i \in 1..Len(errors) |-> FormatError(errors[i])]

(***************************************************************************)
(* extract_tool.ParallelExtractTool                                        *)
(***************************************************************************)
WrapPrefix == "Error calling Parallel Extract API: "

\* variant: the exception is passed on as it is
WrapReraise(e) == Raised(e.exc, e.msg)

\* "except Exception as e: raise ValueError(msg) from e"
Wrap(e) == Raised("ValueError", WrapPrefix \o e.msg)

\* self.api_key.get_secret_value() if self.api_key else None
SecretOrNone(self) == IF Truthy(self.api_key) THEN self.api_key ELSE Null

\* variant: construction does not resolve the key
validate_environment_lazy(values, e) == Returned(values)

\* validate_environment: the outcome of constructing the tool
validate_environment(values, e) ==
    LET r == get_api_key(Get(values, "api_key"), e)
    IN  IF r.kind = "raised" THEN r ELSE Returned(values)

\* the fields of the constructed instance
ToolFields(values) ==
    [api_key |-> Get(values, "api_key"),
     base_url |-> GetDefault(values, "base_url", DefaultBaseUrl),
     max_chars_per_extract |-> Get(values, "max_chars_per_extract")]

\* variant: a response in which every url failed is raised as an error
_run_raise_all_failed(self, e, args, beh) ==
    LET key == get_api_key(SecretOrNone(self), e)
    IN  IF key.kind = "raised" THEN [out |-> Wrap(key), sdk |-> <<>>]
        ELSE
        LET client == SdkClient(FALSE, key.value, self.base_url)
            r == ClientExtract(args.urls, args.search_objective,
                     args.search_queries, excerpts_param(args.excerpts),
                     full_content_param(self, args.full_content),
                     fetch_policy_param(args.fetch_policy), beh)
        IN  IF r.out.kind = "raised"
            THEN [out |-> Wrap(r.out), sdk |-> <<client>> \o r.sdk]
            ELSE IF /\ GetDefault(r.out.value, "results", <<>>) = <<>>
                    /\ GetDefault(r.out.value, "errors", <<>>) # <<>>
            THEN [out |-> Wrap(Raised("ValueError", "all urls failed")),
                  sdk |-> <<client>> \o r.sdk]
            ELSE [out |-> Returned(FormatResponse(r.out.value)),
                  sdk |-> <<client>> \o r.sdk]

\* _run: the outcome and the SDK activity of one call
_run(self, e, args, beh) ==
    LET key == get_api_key(SecretOrNone(self), e)
    IN  IF key.kind = "raised" THEN [out |-> Wrap(key), sdk |-> <<>>]
        ELSE
        LET client == SdkClient(FALSE, key.value, self.base_url)
            r == ClientExtract(args.urls, args.search_objective,
                     args.search_queries, excerpts_param(args.excerpts),
                     full_content_param(self, args.full_content),
                     fetch_policy_param(args.fetch_policy), beh)
        IN  IF r.out.kind = "raised"
            THEN [out |-> Wrap(r.out), sdk |-> <<client>> \o r.sdk]
            ELSE [out |-> Returned(FormatResponse(r.out.value)),
                  sdk |-> <<client>> \o r.sdk]


(***************************************************************************)
(* The async path: AsyncParallelExtractClient.extract and                  *)
(* ParallelExtractTool._arun, which repeat the code of the sync path       *)
(***************************************************************************)
\* the keyword arguments of client.beta.extract
AsyncSdkExtract(urls, objective, search_queries, excerpts, full_content, fetch_policy) ==
    [ev |-> "beta.extract", urls |-> urls, objective |-> objective,
     search_queries |-> search_queries, excerpts |-> excerpts,
     full_content |-> full_content, fetch_policy |-> fetch_policy,
     betas |-> ExtractBetas, timeout |-> SecondsPerUrl * Len(urls)]

\* AsyncParallelExtractClient.extract: the outcome and the SDK invocations
\* made, given the vendor's behaviour
AsyncClientExtract(urls, objective, search_queries, excerpts, full_content, fetch_policy, beh) ==
    IF urls = <<>>
    THEN [out |-> Raised("ValueError", NoUrlsMsg), sdk |-> <<>>]
    ELSE LET req == AsyncSdkExtract(urls, objective, search_queries, excerpts,
                               full_content, fetch_policy)
         IN  IF beh.kind = "raise"
             THEN [out |-> Raised(beh.exc, beh.msg), sdk |-> <<req>>]
             ELSE [out |-> Returned(beh.body), sdk |-> <<req>>]

\* variant: the async path ignores the tool-level limit
async_full_content_param_no_limit(self, full_content) ==
    IF full_content.t = "settings"
    THEN Dict(model_dump_exclude_none(full_content.fields))
    ELSE full_content

\* "Build full_content config"
async_full_content_param(self, full_content) ==
    IF TruthyInt(self.max_chars_per_extract) /\ full_content.t = "bool"
    THEN Dict([max_chars_per_result |-> self.max_chars_per_extract[1]])
    ELSE IF full_content.t = "settings"
    THEN Dict(model_dump_exclude_none(full_content.fields))
    ELSE full_content

\* "Build excerpts config"
async_excerpts_param(excerpts) ==
    IF excerpts.t = "settings"
    THEN Dict(model_dump_exclude_none(excerpts.fields))
    ELSE excerpts

\* "Build fetch_policy config" (a FetchPolicy object is always truthy)
async_fetch_policy_param(fetch_policy) ==
    IF fetch_policy # Null
    THEN Some(model_dump_exclude_none(fetch_policy[1]))
    ELSE Null

\* the body of "for result in results"
AsyncFormatResult(result) ==
    LET base == [url |-> Get(result, "url"), title |-> Get(result, "title")]
        withExcerpts ==
            IF "excerpts" \in DOMAIN result /\ result["excerpts"] # Null
            THEN LET e == SetItem(base, "excerpts", result["excerpts"])
                 IN  IF "full_content" \notin DOMAIN result
                     THEN SetItem(e, "content",
                              Some(Join(ExcerptSep, result["excerpts"][1])))
                     ELSE e
            ELSE base
        withFull ==
            IF "full_content" \in DOMAIN result
            THEN SetItem(SetItem(withExcerpts, "full_content",
                                 result["full_content"]),
                         "content", result["full_content"])
            ELSE withExcerpts
    IN  IF "publish_date" \in DOMAIN result
        THEN SetItem(withFull, "publish_date", result["publish_date"])
        ELSE withFull

\* one element of the list comprehension "for error in errors"
AsyncFormatError(error) ==
    [url |-> Get(error, "url"),
     title |-> Null,
     content |-> Some(ErrorPrefix
                 \o PyStr(GetDefault(error, "error_type", Some(UnknownError)))),
     error_type |-> Get(error, "error_type"),
     http_status_code |-> Get(error, "http_status_code")]

\* formatted_results as returned
AsyncFormatResponse(extract_response) ==
    LET results == GetDefault(extract_response, "results", <<>>)
        errors == GetDefault(extract_response, "errors", <<>>)
    IN  [i \in 1..Len(results) |-> AsyncFormatResult(results[i])]
            \o [i \in 1..Len(errors) |-> AsyncFormatError(errors[i])]

\* "except Exception as e: raise ValueError(msg) from e"
AsyncWrap(e) == Raised("ValueError", WrapPrefix \o e.msg)

\* self.api_key.get_secret_value() if self.api_key else None
AsyncSecretOrNone(self) == IF Truthy(self.api_key) THEN self.api_key ELSE Null

\* _arun: the outcome and the SDK activity of one call
_arun(self, e, args, beh) ==
    LET key == get_api_key(AsyncSecretOrNone(self), e)
    IN  IF key.kind = "raised" THEN [out |-> AsyncWrap(key), sdk |-> <<>>]
        ELSE
        LET client == SdkClient(TRUE, key.value, self.base_url)
            r == AsyncClientExtract(args.urls, args.search_objective,
                     args.search_queries, async_excerpts_param(args.excerpts),
                     async_full_content_param(self, args.full_content),
                     async_fetch_policy_param(args.fetch_policy), beh)
        IN  IF r.out.kind = "raised"
            THEN [out |-> AsyncWrap(r.out), sdk |-> <<client>> \o r.sdk]
            ELSE [out |-> Returned(AsyncFormatResponse(r.out.value)),
                  sdk |-> <<client>> \o r.sdk]

(***************************************************************************)
(* search_tool.ParallelWebSearchTool: input validation, the vendor call    *)
(* and the optional metadata block                                         *)
(***************************************************************************)
QueriesLimit == 5
QueryCharsLimit == 200
ObjectiveCharsLimit == 5000
MaxResultsLow == 1
MaxResultsHigh == 40
CharsPerResultMin == 100

TooManyQueriesMsg == "Maximum 5 search queries allowed"
QueryTooLongMsg == "Each search query must be 200 characters or less"
ObjectiveTooLongMsg == "Objective must be 5000 characters or less"
MaxResultsRangeMsg == "max_results must be between 1 and 40"
CharsPerResultMsg == "max_chars_per_result must be at least 100"
SearchWrapPrefix == "Error calling Parallel AI Search API: "

\* variant: the objective's length is checked before the queries' lengths
validate_search_objective_first(args) ==
    IF ~Truthy(args.objective) /\ ~TruthyList(args.search_queries)
    THEN Some(NoObjectiveMsg)
    ELSE IF TruthyList(args.search_queries)
            /\ Len(args.search_queries[1]) > QueriesLimit
    THEN Some(TooManyQueriesMsg)
    ELSE IF Truthy(args.objective)
            /\ Len(args.objective[1]) > ObjectiveCharsLimit
    THEN Some(ObjectiveTooLongMsg)
    ELSE IF TruthyList(args.search_queries)
            /\ \E i \in 1..Len(args.search_queries[1]) :
                   Len(args.search_queries[1][i]) > QueryCharsLimit
    THEN Some(QueryTooLongMsg)
    ELSE IF args.max_results < MaxResultsLow
            \/ args.max_results > MaxResultsHigh
    THEN Some(MaxResultsRangeMsg)
    ELSE IF args.max_chars_per_result < CharsPerResultMin
    THEN Some(CharsPerResultMsg)
    ELSE Null

\* variant: the upper end of the max_results range is excluded
validate_search_exclusive_range(args) ==
    IF ~Truthy(args.objective) /\ ~TruthyList(args.search_queries)
    THEN Some(NoObjectiveMsg)
    ELSE IF TruthyList(args.search_queries)
            /\ Len(args.search_queries[1]) > QueriesLimit
    THEN Some(TooManyQueriesMsg)
    ELSE IF TruthyList(args.search_queries)
            /\ \E i \in 1..Len(args.search_queries[1]) :
                   Len(args.search_queries[1][i]) > QueryCharsLimit
    THEN Some(QueryTooLongMsg)
    ELSE IF Truthy(args.objective)
            /\ Len(args.objective[1]) > ObjectiveCharsLimit
    THEN Some(ObjectiveTooLongMsg)
    ELSE IF args.max_results < MaxResultsLow
            \/ args.max_results >= MaxResultsHigh
    THEN Some(MaxResultsRangeMsg)
    ELSE IF args.max_chars_per_result < CharsPerResultMin
    THEN Some(CharsPerResultMsg)
    ELSE Null

\* the six checks in their order: the message of the first check the
\* arguments violate, or None
validate_search(args) ==
    IF ~Truthy(args.objective) /\ ~TruthyList(args.search_queries)
    THEN Some(NoObjectiveMsg)
    ELSE IF TruthyList(args.search_queries)
            /\ Len(args.search_queries[1]) > QueriesLimit
    THEN Some(TooManyQueriesMsg)
    ELSE IF TruthyList(args.search_queries)
            /\ \E i \in 1..Len(args.search_queries[1]) :
                   Len(args.search_queries[1][i]) > QueryCharsLimit
    THEN Some(QueryTooLongMsg)
    ELSE IF Truthy(args.objective)
            /\ Len(args.objective[1]) > ObjectiveCharsLimit
    THEN Some(ObjectiveTooLongMsg)
    ELSE IF args.max_results < MaxResultsLow
            \/ args.max_results > MaxResultsHigh
    THEN Some(MaxResultsRangeMsg)
    ELSE IF args.max_chars_per_result < CharsPerResultMin
    THEN Some(CharsPerResultMsg)
    ELSE Null

\* variant: the vendor's exception is passed on as it is
SearchWrapReraise(e) == Raised(e.exc, e.msg)

\* a vendor call exception re-raised as the tool's one error kind
SearchWrap(e) == Raised("ValueError", SearchWrapPrefix \o e.msg)

\* the domains a source policy lists under a key
PolicyDomains(source_policy, k) ==
    IF source_policy = Null THEN <<>>
    ELSE GetDefault(source_policy[1], k, <<>>)

\* variant: the results are counted as the number asked for
search_metadata_requested_count(args, body, duration) ==
    [search_duration_seconds |-> duration,
     processor_used |-> args.processor,
     actual_results_returned |-> args.max_results,
     max_results_requested |-> args.max_results,
     query_count |-> IF args.search_queries = Null THEN 0
                     ELSE Len(args.search_queries[1]),
     source_policy_applied |-> args.source_policy # Null,
     included_domains |-> PolicyDomains(args.source_policy, "include_domains"),
     excluded_domains |-> PolicyDomains(args.source_policy, "exclude_domains")]

\* the metadata block injected when include_metadata is requested
search_metadata(args, body, duration) ==
    [search_duration_seconds |-> duration,
     processor_used |-> args.processor,
     actual_results_returned |-> Len(GetDefault(body, "results", <<>>)),
     max_results_requested |-> args.max_results,
     query_count |-> IF args.search_queries = Null THEN 0
                     ELSE Len(args.search_queries[1]),
     source_policy_applied |-> args.source_policy # Null,
     included_domains |-> PolicyDomains(args.source_policy, "include_domains"),
     excluded_domains |-> PolicyDomains(args.source_policy, "exclude_domains")]

\* the fields of a ParallelWebSearchTool instance
SearchToolFields(api_key) == [api_key |-> api_key, base_url |-> DefaultBaseUrl]

\* ParallelWebSearchTool._run: the outcome and the SDK activity of one
\* call that took `duration` seconds
ParallelWebSearchTool_run(self, args, beh, duration) ==
    LET invalid == validate_search(args)
    IN  IF invalid # Null
        THEN [out |-> Raised("ValueError", invalid[1]), sdk |-> <<>>]
        ELSE
        LET client == SdkClient(FALSE, self.api_key[1], self.base_url)
            r == ClientSearch(args.objective, args.search_queries,
                     args.processor, args.max_results,
                     args.max_chars_per_result, args.source_policy, beh)
        IN  IF r.out.kind = "raised"
            THEN [out |-> SearchWrap(r.out), sdk |-> <<client>> \o r.sdk]
            ELSE IF args.include_metadata
            THEN [out |-> Returned(SetItem(r.out.value, "search_metadata",
                              search_metadata(args, r.out.value, duration))),
                  sdk |-> <<client>> \o r.sdk]
            ELSE [out |-> Returned(r.out.value), sdk |-> <<client>> \o r.sdk]

\* the async path of the search tool
async_validate_search(args) ==
    IF ~Truthy(args.objective) /\ ~TruthyList(args.search_queries)
    THEN Some(NoObjectiveMsg)
    ELSE IF TruthyList(args.search_queries)
            /\ Len(args.search_queries[1]) > QueriesLimit
    THEN Some(TooManyQueriesMsg)
    ELSE IF TruthyList(args.search_queries)
            /\ \E i \in 1..Len(args.search_queries[1]) :
                   Len(args.search_queries[1][i]) > QueryCharsLimit
    THEN Some(QueryTooLongMsg)
    ELSE IF Truthy(args.objective)
            /\ Len(args.objective[1]) > ObjectiveCharsLimit
    THEN Some(ObjectiveTooLongMsg)
    ELSE IF args.max_results < MaxResultsLow
            \/ args.max_results > MaxResultsHigh
    THEN Some(MaxResultsRangeMsg)
    ELSE IF args.max_chars_per_result < CharsPerResultMin
    THEN Some(CharsPerResultMsg)
    ELSE Null

AsyncSearchWrap(e) == Raised("ValueError", SearchWrapPrefix \o e.msg)

async_search_metadata(args, body, duration) ==
    [search_duration_seconds |-> duration,
     processor_used |-> args.processor,
     actual_results_returned |-> Len(GetDefault(body, "results", <<>>)),
     max_results_requested |-> args.max_results,
     query_count |-> IF args.search_queries = Null THEN 0
                     ELSE Len(args.search_queries[1]),
     source_policy_applied |-> args.source_policy # Null,
     included_domains |-> PolicyDomains(args.source_policy, "include_domains"),
     excluded_domains |-> PolicyDomains(args.source_policy, "exclude_domains")]

\* ParallelWebSearchTool._arun
ParallelWebSearchTool_arun(self, args, beh, duration) ==
    LET invalid == async_validate_search(args)
    IN  IF invalid # Null
        THEN [out |-> Raised("ValueError", invalid[1]), sdk |-> <<>>]
        ELSE
        LET client == SdkClient(TRUE, self.api_key[1], self.base_url)
            r == AsyncClientSearch(args.objective, args.search_queries,
                     args.processor, args.max_results,
                     args.max_chars_per_result, args.source_policy, beh)
        IN  IF r.out.kind = "raised"
            THEN [out |-> AsyncSearchWrap(r.out), sdk |-> <<client>> \o r.sdk]
            ELSE IF args.include_metadata
            THEN [out |-> Returned(SetItem(r.out.value, "search_metadata",
                              async_search_metadata(args, r.out.value,
                                                    duration))),
                  sdk |-> <<client>> \o r.sdk]
            ELSE [out |-> Returned(r.out.value), sdk |-> <<client>> \o r.sdk]

(***************************************************************************)
(* Inputs                                                                  *)
(***************************************************************************)
\* sequences over S of length lo..hi
SeqsOf(S, lo, hi) == UNION {[1..n -> S] : n \in lo..hi}

\* a dict given, per key, either Absent or Present(value)
Absent == <<>>
Present(v) == <<v>>
MakeDict(opts) ==
    [k \in {f \in DOMAIN opts : opts[f] # Absent} |-> opts[k][1]]

EnvKey == "env-key"
ArgKey == "arg-key"
EnvSettings == {"", EnvKey}

Urls == {"https://example1.com", "https://example2.com"}
UrlLists == SeqsOf(Urls, 0, MaxUrls)

\* keyword arguments of ParallelExtractTool(...)
ToolKwargs ==
    {MakeDict([api_key |-> k, max_chars_per_extract |-> m]) :
        k \in {Absent, Present(Some("")), Present(Some(ArgKey))},
        m \in {Absent, Present(Some(5000))}}

\* arguments of a call that passes only urls (the schema defaults otherwise)
DefaultArgs(urls) ==
    [urls |-> urls, search_objective |-> Null, search_queries |-> Null,
     excerpts |-> Flag(TRUE), full_content |-> Flag(FALSE),
     fetch_policy |-> Null]
CallArgs == {DefaultArgs(u) : u \in UrlLists}

\* vendor records: the page at the first url carries a publish date, the
\* page at the second does not
PublishDate(u) ==
    IF u = "https://example1.com" THEN Present(Some("2024-01-01")) ELSE Absent
ExcerptPool == <<"a", "b", "c", "d">>
ExcerptLists == {SubSeq(ExcerptPool, 1, n) : n \in 0..MaxExcerpts}
SuccessRecords ==
    {MakeDict([url |-> Present(Some(u)), title |-> Present(Some("T")),
               excerpts |-> ex, full_content |-> fc,
               publish_date |-> PublishDate(u)]) :
        u \in Urls,
        ex \in {Absent, Present(Null)}
                \cup {Present(Some(l)) : l \in ExcerptLists},
        fc \in {Absent, Present(Null), Present(Some("X"))}}
ErrorRecords ==
    {MakeDict([url |-> Present(Some(u)), error_type |-> et,
               http_status_code |-> sc]) :
        u \in Urls,
        et \in {Absent, Present(Null), Present(Some("http_error"))},
        sc \in {Absent, Present(Some(404))}}

\* vendor responses: at most MaxItems records in all; the key of an empty
\* list may be missing
ListOpts(S, n) ==
    {Present(l) : l \in [1..n -> S]} \cup (IF n = 0 THEN {Absent} ELSE {})
ItemCounts == {q \in (0..MaxItems) \X (0..MaxItems) : q[1] + q[2] <= MaxItems}
VendorResponse(rs, es) == MakeDict([results |-> rs, errors |-> es])

\* what beta.extract does: return a response or raise
Responds(body) == [kind |-> "response", body |-> body]
Raises(exc, msg) == [kind |-> "raise", exc |-> exc, msg |-> msg]
ApiError == Raises("Exception", "API Error")
TimeoutError == Raises("APITimeoutError", "Request timed out.")

\* the mocked vendor of tests/unit_tests/test_extract_tool.py
MockedResponse ==
    [results |-> <<[url |-> Some("https://example1.com"),
                    title |-> Some("T"), full_content |-> Some("X")]>>,
     errors |-> <<[url |-> Some("https://example2.com"),
                   error_type |-> Some("http_error"),
                   http_status_code |-> Some(404)]>>]
MockedBehaviours == {Responds(MockedResponse), ApiError, TimeoutError}

\* s * n, the string s repeated n times
RECURSIVE Repeat(_, _)
Repeat(s, n) ==
    IF n = 0 THEN ""
    ELSE LET h == Repeat(s, n \div 2)
         IN  IF n % 2 = 0 THEN h \o h ELSE h \o h \o s

\* the mocked vendor of tests/unit_tests/test_search_tool.py
MockedSearchResponse ==
    [search_id |-> "test-123",
     results |-> <<[url |-> "https://example.com", title |-> "Test Result",
                    excerpts |-> <<"Test excerpt">>]>>]

\* arguments of a search call: values below, at and above each limit
Objectives ==
    {Null, Some(""), Some("test"),
     Some(Repeat("a", 5000)), Some(Repeat("a", 5001))}
QueryLists ==
    {Null, Some(<<>>),
     Some(<<"q1", "q2", "q3", "q4", Repeat("a", 200)>>),
     Some(<<"q1", "q2", "q3", "q4", "q5", "q6">>),
     Some(<<Repeat("a", 201)>>),
     Some(<<"q1", "q2", "q3", "q4", "q5", Repeat("a", 201)>>)}
MaxResultsValues == {0, 1, 10, 40, 41}
MaxCharsValues == {99, 100}
SourcePolicies == {Null, Some([include_domains |-> <<"example.com">>])}

\* calls that exercise the validation, with the other arguments at their
\* defaults
ValidationArgs ==
    {[objective |-> o, search_queries |-> q, processor |-> "base",
      max_results |-> m, max_chars_per_result |-> c,
      include_metadata |-> FALSE, source_policy |-> Null] :
        o \in Objectives, q \in QueryLists,
        m \in MaxResultsValues, c \in MaxCharsValues}
\* valid calls that vary the processor, the metadata flag and the policy
OptionArgs ==
    {[objective |-> Null, search_queries |-> Some(<<"query1", "query2">>),
      processor |-> p, max_results |-> 10, max_chars_per_result |-> 1500,
      include_metadata |-> im, source_policy |-> sp] :
        p \in {"base", "pro"}, im \in BOOLEAN, sp \in SourcePolicies}
SearchArgs == ValidationArgs \cup OptionArgs
\* seconds measured around the vendor call
SearchDurations == {1, 2}

\* arguments of a direct call of a search adapter
AdapterArgs ==
    {[objective |-> o, search_queries |-> q, processor |-> p,
      max_results |-> 10, max_chars_per_result |-> 1500,
      source_policy |-> Null] :
        o \in {Null, Some(""), Some("test")},
        q \in {Null, Some(<<>>), Some(<<"q1">>)},
        p \in {"base", "pro", "ultra"}}

(***************************************************************************)
(* State machine                                                           *)
(***************************************************************************)
NoTool == Null
NoEnv == [n \in EnvNames |-> Null]
Nothing == [op |-> "none"]

\* os.environ[name] = value
SetEnv(name, value) ==
    /\ env' = [env EXCEPT ![name] = Some(value)]
    /\ last' = [op |-> "setenv"]
    /\ sdk' = <<>>
    /\ UNCHANGED <<vendor, tool, calls>>

\* del os.environ[name]
UnsetEnv(name) ==
    /\ env[name] # Null
    /\ env' = [env EXCEPT ![name] = Null]
    /\ last' = [op |-> "unsetenv"]
    /\ sdk' = <<>>
    /\ UNCHANGED <<vendor, tool, calls>>

\* get_api_key(api_key)
Resolve(api_key) ==
    /\ last' = [op |-> "get_api_key", api_key |-> api_key, env |-> env,
                out |-> get_api_key(api_key, env)]
    /\ sdk' = <<>>
    /\ UNCHANGED <<env, vendor, tool, calls>>

\* ParallelExtractTool(**values)
Construct(values) ==
    LET r == validate_environment(values, env)
    IN  /\ last' = [op |-> "construct", values |-> values, env |-> env,
                    out |-> r]
        /\ tool' = IF r.kind = "raised" THEN tool
                   ELSE Some(ToolFields(r.value))
        /\ sdk' = <<>>
        /\ UNCHANGED <<env, vendor, calls>>

\* tool._run(**args)
RunCall(args) ==
    /\ tool # NoTool
    /\ LET r == _run(tool[1], env, args, vendor)
       IN  /\ last' = [op |-> "_run", args |-> args, out |-> r.out]
           /\ sdk' = r.sdk
    /\ UNCHANGED <<env, vendor, tool, calls>>

\* await tool._arun(**args)
ARunCall(args) ==
    /\ tool # NoTool
    /\ LET r == _arun(tool[1], env, args, vendor)
       IN  /\ last' = [op |-> "_arun", args |-> args, out |-> r.out]
           /\ sdk' = r.sdk
    /\ UNCHANGED <<env, vendor, tool, calls>>

\* The tool in its environment: the environment changes, the resolver is
\* called, tools are constructed and called against the mocked vendor.
Init ==
    /\ env \in [EnvNames -> {Null} \cup {Some(v) : v \in EnvSettings}]
    /\ vendor \in MockedBehaviours
    /\ tool = NoTool
    /\ last = Nothing
    /\ sdk = <<>>
    /\ calls = <<>>

Next ==
    \/ \E n \in EnvNames, v \in EnvSettings : SetEnv(n, v)
    \/ \E n \in EnvNames : UnsetEnv(n)
    \/ \E k \in {Null, Some(""), Some(ArgKey)} : Resolve(k)
    \/ \E values \in ToolKwargs : Construct(values)
    \/ \E args \in CallArgs : RunCall(args)
    \/ \E args \in CallArgs : ARunCall(args)

Spec == Init /\ [][Next]_vars

\* Response reshaping: a tool constructed with an explicit key is called
\* once the vendor's behaviour (a response or an exception) has been drawn.
ReshapeTool ==
    ToolFields(MakeDict([api_key |-> Present(Some(ArgKey)),
                         max_chars_per_extract |-> Absent]))
ReshapeArgs ==
    {DefaultArgs(<<"https://example1.com", "https://example2.com">>)}

InitReshape ==
    /\ env = NoEnv
    /\ \/ vendor = ApiError
       \/ \E p \in ItemCounts :
             \E rs \in ListOpts(SuccessRecords, p[1]),
                es \in ListOpts(ErrorRecords, p[2]) :
                vendor = Responds(VendorResponse(rs, es))
    /\ tool = Some(ReshapeTool)
    /\ last = Nothing
    /\ sdk = <<>>
    /\ calls = <<>>

NextReshape ==
    \/ \E args \in ReshapeArgs : RunCall(args)
    \/ \E args \in ReshapeArgs : ARunCall(args)

SpecReshape == InitReshape /\ [][NextReshape]_vars

\* Parameter normalisation: a tool with or without a tool-level character
\* limit is called with every combination of excerpts, full_content and
\* fetch_policy arguments.
ParamTools ==
    {ToolFields(MakeDict([api_key |-> Present(Some(ArgKey)),
                          max_chars_per_extract |-> m])) :
        m \in {Absent, Present(Some(5000))}}
SettingsArgs ==
    {Flag(TRUE), Flag(FALSE),
     Settings([max_chars_per_result |-> Null]),
     Settings([max_chars_per_result |-> Some(1000)])}
FetchPolicies ==
    {[max_age_seconds |-> a, timeout_seconds |-> t,
      disable_cache_fallback |-> Some(d)] :
        a \in {Null, Some(300), Some(600)},
        t \in {Null, Some(30)},
        d \in BOOLEAN}
ParamArgs ==
    {[urls |-> <<"https://example1.com">>, search_objective |-> Null,
      search_queries |-> Null, excerpts |-> ex, full_content |-> fc,
      fetch_policy |-> fp] :
        ex \in SettingsArgs, fc \in SettingsArgs,
        fp \in {Null} \cup {Some(f) : f \in FetchPolicies}}

InitParams ==
    /\ env = NoEnv
    /\ vendor = Responds(MockedResponse)
    /\ tool \in {Some(t) : t \in ParamTools}
    /\ last = Nothing
    /\ sdk = <<>>
    /\ calls = <<>>

NextParams ==
    \/ \E args \in ParamArgs : RunCall(args)
    \/ \E args \in ParamArgs : ARunCall(args)

SpecParams == InitParams /\ [][NextParams]_vars

\* Search: the adapters are called directly, and the search tool is called
\* with arguments around each validation limit, against a vendor that
\* responds or raises.
\* get_search_client(api_key, base_url).search(**args)
ClientSearchCall(args) ==
    /\ tool # NoTool
    /\ LET r == ClientSearch(args.objective, args.search_queries,
                    args.processor, args.max_results,
                    args.max_chars_per_result, args.source_policy, vendor)
       IN  /\ last' = [op |-> "ParallelSearchClient.search",
                       args |-> args, out |-> r.out]
           /\ sdk' = <<SdkClient(FALSE, tool[1].api_key[1],
                                 tool[1].base_url)>> \o r.sdk
    /\ UNCHANGED <<env, vendor, tool, calls>>

\* await get_async_search_client(api_key, base_url).search(**args)
AsyncClientSearchCall(args) ==
    /\ tool # NoTool
    /\ LET r == AsyncClientSearch(args.objective, args.search_queries,
                    args.processor, args.max_results,
                    args.max_chars_per_result, args.source_policy, vendor)
       IN  /\ last' = [op |-> "AsyncParallelSearchClient.search",
                       args |-> args, out |-> r.out]
           /\ sdk' = <<SdkClient(TRUE, tool[1].api_key[1],
                                 tool[1].base_url)>> \o r.sdk
    /\ UNCHANGED <<env, vendor, tool, calls>>

\* tool._run(**args)
SearchRunCall(args, duration) ==
    /\ tool # NoTool
    /\ LET r == ParallelWebSearchTool_run(tool[1], args, vendor, duration)
       IN  /\ last' = [op |-> "ParallelWebSearchTool._run",
                       args |-> args, out |-> r.out]
           /\ sdk' = r.sdk
    /\ UNCHANGED <<env, vendor, tool, calls>>

\* await tool._arun(**args)
SearchARunCall(args, duration) ==
    /\ tool # NoTool
    /\ LET r == ParallelWebSearchTool_arun(tool[1], args, vendor, duration)
       IN  /\ last' = [op |-> "ParallelWebSearchTool._arun",
                       args |-> args, out |-> r.out]
           /\ sdk' = r.sdk
    /\ UNCHANGED <<env, vendor, tool, calls>>

InitSearch ==
    /\ env = NoEnv
    /\ vendor \in {Responds(MockedSearchResponse), ApiError}
    /\ tool = Some(SearchToolFields(Some(ArgKey)))
    /\ last = Nothing
    /\ sdk = <<>>
    /\ calls = <<>>

NextSearch ==
    \/ \E args \in AdapterArgs : ClientSearchCall(args)
    \/ \E args \in AdapterArgs : AsyncClientSearchCall(args)
    \/ \E args \in ValidationArgs : SearchRunCall(args, 1)
    \/ \E args \in OptionArgs, d \in SearchDurations : SearchRunCall(args, d)
    \/ \E args \in ValidationArgs : SearchARunCall(args, 1)
    \/ \E args \in OptionArgs, d \in SearchDurations : SearchARunCall(args, d)

SpecSearch == InitSearch /\ [][NextSearch]_vars

\* Sync against async: tools with and without a limit or a key of their
\* own are called on either path, in an environment with or without the
\* key, against a vendor that raises or responds with one record.
EquivTools ==
    ParamTools
        \cup {ToolFields(MakeDict([api_key |-> Absent,
                                   max_chars_per_extract |-> Absent]))}
EquivEnvs == {NoEnv, [NoEnv EXCEPT ![ApiKeyEnvVar] = Some(EnvKey)]}
EquivVendors ==
    {ApiError, TimeoutError, Responds(MockedResponse)}
        \cup {Responds(VendorResponse(Present(<<r>>), Absent)) :
                 r \in SuccessRecords}
        \cup {Responds(VendorResponse(Absent, Present(<<x>>))) :
                 x \in ErrorRecords}
EquivArgs ==
    {[urls |-> u, search_objective |-> Null, search_queries |-> Null,
      excerpts |-> ex, full_content |-> fc, fetch_policy |-> fp] :
        u \in {<<>>, <<"https://example1.com">>},
        ex \in {Flag(TRUE), Settings([max_chars_per_result |-> Some(1000)])},
        fc \in {Flag(FALSE), Settings([max_chars_per_result |-> Null])},
        fp \in {Null, Some([max_age_seconds |-> Some(600),
                            timeout_seconds |-> Null,
                            disable_cache_fallback |-> Some(TRUE)])}}

InitEquiv ==
    /\ env \in EquivEnvs
    /\ vendor \in EquivVendors
    /\ tool \in {Some(t) : t \in EquivTools}
    /\ last = Nothing
    /\ sdk = <<>>
    /\ calls = <<>>

NextEquiv ==
    \/ \E args \in EquivArgs : RunCall(args)
    \/ \E args \in EquivArgs : ARunCall(args)

SpecEquiv == InitEquiv /\ [][NextEquiv]_vars

\* Concurrent calls: up to MaxCalls calls of _run / _arun are in flight on
\* one tool instance and advance one statement group at a time, in any
\* interleaving.
ConcurrentArgs ==
    {DefaultArgs(<<"https://example1.com">>),
     [DefaultArgs(<<"https://example2.com">>) EXCEPT
         !.excerpts = Flag(FALSE),
         !.full_content = Settings([max_chars_per_result |-> Some(1000)])],
     DefaultArgs(<<>>)}

\* a call that has just been entered: nothing computed yet
NewCall(self, args, isAsync) ==
    [self |-> self, args |-> args, isAsync |-> isAsync, pc |-> "key",
     key |-> Null, params |-> Null, resp |-> Null, events |-> <<>>,
     out |-> Null]

\* variant: the parameters are cached on the instance by the first call
\* that builds them
CallParamsCached(cs, i) ==
    cs[CHOOSE j \in 1..Len(cs) :
           /\ cs[j].params # Null
           /\ \A k \in 1..(j - 1) : cs[k].params = Null].params[1]

\* the local variables excerpts_param, full_content_param and
\* fetch_policy_param of call i
CallParams(cs, i) == cs[i].params[1]

\* tool._run(**args) or tool._arun(**args) is entered
Begin(args, isAsync) ==
    /\ tool # NoTool
    /\ Len(calls) < MaxCalls
    /\ calls' = Append(calls, NewCall(tool[1], args, isAsync))
    /\ UNCHANGED <<env, vendor, tool, last, sdk>>

\* "api_key_str = get_api_key(...)"
ResolveKey(i) ==
    /\ calls[i].pc = "key"
    /\ LET k == IF calls[i].isAsync
                THEN get_api_key(AsyncSecretOrNone(tool[1]), env)
                ELSE get_api_key(SecretOrNone(tool[1]), env)
       IN  calls' = IF k.kind = "raised"
                    THEN [calls EXCEPT
                             ![i].pc = "done",
                             ![i].out = Some(IF calls[i].isAsync
                                             THEN AsyncWrap(k) ELSE Wrap(k))]
                    ELSE [calls EXCEPT ![i].pc = "client",
                                       ![i].key = Some(k.value)]
    /\ UNCHANGED <<env, vendor, tool, last, sdk>>

\* "client = get_extract_client(api_key_str, self.base_url)"
MakeClient(i) ==
    /\ calls[i].pc = "client"
    /\ calls' = [calls EXCEPT
                    ![i].pc = "params",
                    ![i].events = <<SdkClient(calls[i].isAsync,
                                              calls[i].key[1],
                                              tool[1].base_url)>>]
    /\ UNCHANGED <<env, vendor, tool, last, sdk>>

\* "Build full_content config", "Build excerpts config", "Build
\* fetch_policy config"
BuildParams(i) ==
    /\ calls[i].pc = "params"
    /\ LET a == calls[i].args
           built ==
               IF calls[i].isAsync
               THEN [excerpts |-> async_excerpts_param(a.excerpts),
                     full_content |->
                         async_full_content_param(tool[1], a.full_content),
                     fetch_policy |->
                         async_fetch_policy_param(a.fetch_policy)]
               ELSE [excerpts |-> excerpts_param(a.excerpts),
                     full_content |->
                         full_content_param(tool[1], a.full_content),
                     fetch_policy |-> fetch_policy_param(a.fetch_policy)]
       IN  calls' = [calls EXCEPT ![i].pc = "extract",
                                  ![i].params = Some(built)]
    /\ UNCHANGED <<env, vendor, tool, last, sdk>>

\* "extract_response = client.extract(...)"
Extract(i) ==
    /\ calls[i].pc = "extract"
    /\ LET a == calls[i].args
           p == CallParams(calls, i)
           r == IF calls[i].isAsync
                THEN AsyncClientExtract(a.urls, a.search_objective,
                         a.search_queries, p.excerpts, p.full_content,
                         p.fetch_policy, vendor)
                ELSE ClientExtract(a.urls, a.search_objective,
                         a.search_queries, p.excerpts, p.full_content,
                         p.fetch_policy, vendor)
       IN  calls' = [calls EXCEPT ![i].pc = "format",
                                  ![i].events = calls[i].events \o r.sdk,
                                  ![i].resp = Some(r.out)]
    /\ UNCHANGED <<env, vendor, tool, last, sdk>>

\* "Format results" up to the return, or the except clause
Format(i) ==
    /\ calls[i].pc = "format"
    /\ LET r == calls[i].resp[1]
           o == IF r.kind = "raised"
                THEN (IF calls[i].isAsync THEN AsyncWrap(r) ELSE Wrap(r))
                ELSE IF calls[i].isAsync
                THEN Returned(AsyncFormatResponse(r.value))
                ELSE Returned(FormatResponse(r.value))
       IN  calls' = [calls EXCEPT ![i].pc = "done", ![i].out = Some(o)]
    /\ UNCHANGED <<env, vendor, tool, last, sdk>>

InitConcurrent ==
    /\ env = NoEnv
    /\ vendor \in {Responds(MockedResponse), ApiError}
    /\ tool \in {Some(t) : t \in ParamTools}
    /\ last = Nothing
    /\ sdk = <<>>
    /\ calls = <<>>

NextConcurrent ==
    \/ \E args \in ConcurrentArgs, isAsync \in BOOLEAN : Begin(args, isAsync)
    \/ \E i \in 1..Len(calls) : ResolveKey(i)
    \/ \E i \in 1..Len(calls) : MakeClient(i)
    \/ \E i \in 1..Len(calls) : BuildParams(i)
    \/ \E i \in 1..Len(calls) : Extract(i)
    \/ \E i \in 1..Len(calls) : Format(i)

SpecConcurrent == InitConcurrent /\ [][NextConcurrent]_vars

(***************************************************************************)
(* Properties                                                              *)
(***************************************************************************)
IsCall == last.op \in {"_run", "_arun"}
CallReturned == IsCall /\ last.out.kind = "returned"
\* the vendor's response lists, as the tool reads them
VendorResults ==
    IF vendor.kind = "response"
    THEN GetDefault(vendor.body, "results", <<>>) ELSE <<>>
VendorErrors ==
    IF vendor.kind = "response"
    THEN GetDefault(vendor.body, "errors", <<>>) ELSE <<>>
\* the vendor SDK's extract method was invoked and returned a response
VendorResponded ==
    /\ IsCall
    /\ vendor.kind = "response"
    /\ \E i \in 1..Len(sdk) : sdk[i].ev = "beta.extract"
StartsWith(str, prefix) ==
    Len(str) >= Len(prefix) /\ SubSeq(str, 1, Len(prefix)) = prefix
IsNonEmptyKey(k) == k \notin {Null, Some("")}

\* C1: get_api_key returns a non-empty explicit key unchanged whatever the
\* environment holds; with an empty or missing explicit key it returns the
\* value of the environment variable when that is non-empty; when both are
\* empty or missing it raises a ValueError whose message names the
\* environment variable the resolver reads.
C1_Precedence ==
    last.op = "get_api_key" =>
        LET k == last.api_key
            v == last.env[ApiKeyEnvVar]
        IN  /\ IsNonEmptyKey(k) => last.out = Returned(k[1])
            /\ (~IsNonEmptyKey(k) /\ IsNonEmptyKey(v))
                    => last.out = Returned(v[1])
            /\ (~IsNonEmptyKey(k) /\ ~IsNonEmptyKey(v))
                    => /\ last.out.kind = "raised"
                       /\ last.out.exc = "ValueError"
                       /\ last.out.msg = MissingKeyHead \o ApiKeyEnvVar
                                             \o MissingKeyTail
\* an explicit key was passed while the environment holds another one
C1_Witness ==
    /\ last.op = "get_api_key"
    /\ last.api_key = Some(ArgKey)
    /\ last.env[ApiKeyEnvVar] = Some(EnvKey)
    /\ last.out = Returned(ArgKey)

\* C2: constructing the tool with no api_key argument while no API-key
\* environment variable is set fails with the credential-not-found error,
\* and the vendor SDK is not touched (no client created, no method invoked).
C2_ConstructFailsBeforeSdk ==
    (/\ last.op = "construct"
     /\ "api_key" \notin DOMAIN last.values
     /\ \A n \in EnvNames : last.env[n] = Null)
        => /\ last.out = Raised("ValueError", MissingKeyMsg)
           /\ sdk = <<>>
C2_Witness ==
    /\ last.op = "construct"
    /\ "api_key" \notin DOMAIN last.values
    /\ \A n \in EnvNames : last.env[n] = Null
    /\ last.out.kind = "raised"
    /\ tool = NoTool

\* C3: no _run or _arun call on a constructed tool fails because the
\* credential is missing, whatever happened to the environment since the
\* construction.
C3_NoCallTimeCredentialError ==
    IsCall => ~(/\ last.out.kind = "raised"
                /\ last.out.msg = WrapPrefix \o MissingKeyMsg)

\* item is the reshaped form of the vendor success record rec
FromSuccess(item, rec) ==
    /\ item["url"] = Get(rec, "url")
    /\ item["title"] = Get(rec, "title")
    /\ "error_type" \notin DOMAIN item
    /\ ("excerpts" \in DOMAIN item)
          <=> ("excerpts" \in DOMAIN rec /\ rec["excerpts"] # Null)
    /\ "excerpts" \in DOMAIN item => item["excerpts"] = rec["excerpts"]
    /\ ("full_content" \in DOMAIN item) <=> ("full_content" \in DOMAIN rec)
    /\ "full_content" \in DOMAIN item
          => item["full_content"] = rec["full_content"]
    /\ ("publish_date" \in DOMAIN item) <=> ("publish_date" \in DOMAIN rec)
    /\ "publish_date" \in DOMAIN item
          => item["publish_date"] = rec["publish_date"]
\* item is the error item of the vendor error record rec
FromError(item, rec) ==
    /\ item["url"] = Get(rec, "url")
    /\ "error_type" \in DOMAIN item
    /\ item["error_type"] = Get(rec, "error_type")
    /\ "excerpts" \notin DOMAIN item
    /\ "full_content" \notin DOMAIN item

\* C4: the returned list has length |R| + |E|; its first |R| items are the
\* reshaped success records in the vendor's order and its last |E| items
\* the error records in the vendor's order.
C4_SuccessesThenErrors ==
    (CallReturned /\ vendor.kind = "response") =>
        LET out == last.out.value
            R == VendorResults
            E == VendorErrors
        IN  /\ Len(out) = Len(R) + Len(E)
            /\ \A i \in 1..Len(R) : FromSuccess(out[i], R[i])
            /\ \A j \in 1..Len(E) : FromError(out[Len(R) + j], E[j])
\* the vendor answered the second requested url with a success and the
\* first with an error: the success comes first
C4_Witness ==
    /\ CallReturned
    /\ last.args.urls = <<"https://example1.com", "https://example2.com">>
    /\ Len(VendorResults) = 1 /\ Len(VendorErrors) = 1
    /\ Len(last.out.value) = 2
    /\ last.out.value[1]["url"] = Some("https://example2.com")
    /\ "error_type" \notin DOMAIN last.out.value[1]
    /\ last.out.value[2]["url"] = Some("https://example1.com")
    /\ "error_type" \in DOMAIN last.out.value[2]

\* C5: for a success record with a full_content field, the item's
\* full_content and content both equal it, with or without excerpts.
C5_FullContentWins ==
    (CallReturned /\ vendor.kind = "response") =>
        \A i \in 1..Len(VendorResults) :
            LET rec == VendorResults[i]
                item == last.out.value[i]
            IN  "full_content" \in DOMAIN rec =>
                    /\ {"full_content", "content"} \subseteq DOMAIN item
                    /\ item["full_content"] = rec["full_content"]
                    /\ item["content"] = rec["full_content"]
C5_Witness ==
    /\ CallReturned
    /\ Len(VendorResults) >= 1
    /\ "full_content" \in DOMAIN VendorResults[1]
    /\ VendorResults[1]["full_content"] = Some("X")
    /\ "excerpts" \in DOMAIN VendorResults[1]
    /\ VendorResults[1]["excerpts"] = Some(<<"a", "b">>)
    /\ last.out.value[1]["content"] = Some("X")

\* the excerpts e1, ..., en separated by blank lines
RECURSIVE JoinedExcerpts(_, _)
JoinedExcerpts(l, n) ==
    IF n = 0 THEN ""
    ELSE IF n = 1 THEN l[1]
    ELSE JoinedExcerpts(l, n - 1) \o "\n\n" \o l[n]

\* C6: for a success record with excerpts [e1, ..., en] and no full_content
\* field, the item's content is the excerpts joined in order with "\n\n"
\* (["a","b"] gives "a\n\nb") and the item's excerpts is the vendor's list.
C6_ExcerptsJoined ==
    (CallReturned /\ vendor.kind = "response") =>
        \A i \in 1..Len(VendorResults) :
            LET rec == VendorResults[i]
                item == last.out.value[i]
            IN  (/\ "excerpts" \in DOMAIN rec
                 /\ rec["excerpts"] # Null
                 /\ "full_content" \notin DOMAIN rec)
                    => /\ {"excerpts", "content"} \subseteq DOMAIN item
                       /\ item["excerpts"] = rec["excerpts"]
                       /\ item["content"]
                            = Some(JoinedExcerpts(rec["excerpts"][1],
                                                  Len(rec["excerpts"][1])))
                       /\ rec["excerpts"][1] = <<"a", "b">>
                            => item["content"] = Some("a\n\nb")
C6_Witness ==
    /\ CallReturned
    /\ Len(VendorResults) >= 1
    /\ "full_content" \notin DOMAIN VendorResults[1]
    /\ "excerpts" \in DOMAIN VendorResults[1]
    /\ VendorResults[1]["excerpts"] = Some(<<"a", "b">>)
    /\ last.out.value[1]["content"] = Some("a\n\nb")
    /\ last.out.value[1]["excerpts"] = Some(<<"a", "b">>)

\* C7: every item of the returned list, success or error, has both a url
\* field and a content field.
C7_EveryItemHasUrlAndContent ==
    CallReturned =>
        \A i \in 1..Len(last.out.value) :
            {"url", "content"} \subseteq DOMAIN last.out.value[i]

\* C8: the item of a vendor error record has the record's url, a null
\* title, the record's error_type, and content "Error: " followed by the
\* error_type when the record has one and by "Unknown error" otherwise;
\* in every case the content starts with "Error: ".
C8_ErrorItem ==
    (CallReturned /\ vendor.kind = "response") =>
        \A j \in 1..Len(VendorErrors) :
            LET rec == VendorErrors[j]
                item == last.out.value[Len(VendorResults) + j]
            IN  /\ item["url"] = Get(rec, "url")
                /\ item["title"] = Null
                /\ item["error_type"] = Get(rec, "error_type")
                /\ item["content"] # Null
                /\ StartsWith(item["content"][1], "Error: ")
                /\ "error_type" \in DOMAIN rec
                      => item["content"]
                           = Some("Error: " \o PyStr(rec["error_type"]))
                /\ "error_type" \notin DOMAIN rec
                      => item["content"] = Some("Error: Unknown error")
\* one error record with an error type and one without
C8_Witness ==
    /\ CallReturned
    /\ VendorResults = <<>>
    /\ Len(VendorErrors) = 2
    /\ last.out.value[1]["content"] = Some("Error: http_error")
    /\ last.out.value[1]["error_type"] = Some("http_error")
    /\ "error_type" \notin DOMAIN VendorErrors[2]
    /\ last.out.value[2]["content"] = Some("Error: Unknown error")
    /\ last.out.value[2]["title"] = Null

\* C9 as stated: an error item has an http_status_code field only if the
\* vendor record has one, and then with the same value.
C9_StatusOnlyIfPresent ==
    (CallReturned /\ vendor.kind = "response") =>
        \A j \in 1..Len(VendorErrors) :
            LET rec == VendorErrors[j]
                item == last.out.value[Len(VendorResults) + j]
            IN  /\ "http_status_code" \in DOMAIN item
                      => /\ "http_status_code" \in DOMAIN rec
                         /\ item["http_status_code"] = rec["http_status_code"]
                /\ "http_status_code" \notin DOMAIN rec
                      => "http_status_code" \notin DOMAIN item

\* C9 (amended): every error item has an http_status_code field; its value
\* is the vendor record's http_status_code when the record has one and null
\* otherwise.
C9_StatusAlwaysPresent ==
    (CallReturned /\ vendor.kind = "response") =>
        \A j \in 1..Len(VendorErrors) :
            LET rec == VendorErrors[j]
                item == last.out.value[Len(VendorResults) + j]
            IN  /\ "http_status_code" \in DOMAIN item
                /\ "http_status_code" \in DOMAIN rec
                      => item["http_status_code"] = rec["http_status_code"]
                /\ "http_status_code" \notin DOMAIN rec
                      => item["http_status_code"] = Null
\* one error record with a status code and one without
C9_Witness ==
    /\ CallReturned
    /\ VendorResults = <<>>
    /\ Len(VendorErrors) = 2
    /\ "http_status_code" \in DOMAIN VendorErrors[1]
    /\ last.out.value[1]["http_status_code"] = Some(404)
    /\ "http_status_code" \notin DOMAIN VendorErrors[2]
    /\ last.out.value[2]["http_status_code"] = Null

\* C10: whenever the vendor call returns a response, however many error
\* records it holds, the call returns a list and the failures appear in it
\* as error items only.
C10_PerUrlFailuresNotRaised ==
    VendorResponded =>
        /\ last.out.kind = "returned"
        /\ Cardinality({i \in 1..Len(last.out.value) :
                            "error_type" \in DOMAIN last.out.value[i]})
              = Len(VendorErrors)
\* every requested url failed
C10_Witness ==
    /\ VendorResponded
    /\ VendorResults = <<>>
    /\ Len(VendorErrors) = Len(last.args.urls)
    /\ last.out.kind = "returned"
    /\ Len(last.out.value) = Len(VendorErrors)

\* the vendor SDK's extract method was invoked by the last operation
ExtractInvoked == \E i \in 1..Len(sdk) : sdk[i].ev = "beta.extract"
\* a vendor SDK client was created by the last operation
ClientCreated ==
    \E i \in 1..Len(sdk) : sdk[i].ev \in {"Parallel", "AsyncParallel"}

\* C11: an exception of the vendor extract call, of whatever kind, is
\* re-raised as a ValueError whose message is "Error calling Parallel Extract
\* API: " followed by the original message, on _run and on _arun; no list
\* is returned.
C11_VendorExceptionWrapped ==
    (IsCall /\ ExtractInvoked /\ vendor.kind = "raise") =>
        /\ last.out.kind = "raised"
        /\ last.out.exc = "ValueError"
        /\ last.out.msg = "Error calling Parallel Extract API: " \o vendor.msg
C11_Witness ==
    /\ last.op = "_arun"
    /\ ExtractInvoked
    /\ vendor = TimeoutError
    /\ last.out = Raised("ValueError",
            "Error calling Parallel Extract API: Request timed out.")

\* C12: a call with an empty urls list fails and the vendor SDK's extract
\* method is not invoked for it; a call with at least one url passes the
\* check and reaches the vendor SDK (sync and async).
C12_EmptyUrlsRejected ==
    IsCall =>
        /\ last.args.urls = <<>>
              => last.out.kind = "raised" /\ ~ExtractInvoked
        /\ (last.args.urls # <<>> /\ ClientCreated) => ExtractInvoked
C12_Witness ==
    /\ IsCall
    /\ last.args.urls = <<>>
    /\ ClientCreated
    /\ ~ExtractInvoked
    /\ last.out.kind = "raised"

\* C13: a call rejected by local validation (an empty urls list) surfaces
\* the validation error itself and is never reported as the wrapped
\* remote-failure error "Error calling Parallel Extract API: ...".
C13_ValidationNotWrapped ==
    (IsCall /\ last.args.urls = <<>> /\ ClientCreated) =>
        /\ last.out.kind = "raised"
        /\ last.out.msg = NoUrlsMsg
        /\ ~StartsWith(last.out.msg, WrapPrefix)

\* C16: with no api_key argument and PARALLEL_AI_API_KEY set in the
\* environment, constructing the tool succeeds.
C16_DocumentedEnvVarRead ==
    (/\ last.op = "construct"
     /\ "api_key" \notin DOMAIN last.values
     /\ IsNonEmptyKey(last.env[DocEnvVar]))
        => last.out.kind = "returned"

\* the keyword arguments the vendor SDK's extract method was invoked with
ExtractRequest == sdk[CHOOSE i \in 1..Len(sdk) : sdk[i].ev = "beta.extract"]
\* the non-null fields of a settings object, as a plain key-value map
IsFlattened(d, fields) ==
    /\ DOMAIN d = {f \in DOMAIN fields : fields[f] # Null}
    /\ \A f \in DOMAIN d : d[f] = fields[f][1]

\* C14: the tool-level limit max_chars_per_extract = N is used only when the
\* caller passed a plain boolean for full_content, and the adapter then
\* receives full_content = {max_chars_per_result: N}; when the caller passed
\* a FullContentSettings object the adapter receives the caller's settings
\* only.
C14_ToolLimitOnlyForBoolean ==
    (IsCall /\ ExtractInvoked) =>
        LET fc == last.args.full_content
            N == tool[1].max_chars_per_extract
            sent == ExtractRequest.full_content
        IN  /\ (fc.t = "bool" /\ N # Null)
                  => sent = Dict([max_chars_per_result |-> N[1]])
            /\ fc.t = "settings"
                  => sent.t = "dict" /\ IsFlattened(sent.d, fc.fields)
\* a tool with a limit receives settings that carry none
C14_Witness ==
    /\ IsCall /\ ExtractInvoked
    /\ tool[1].max_chars_per_extract = Some(5000)
    /\ last.args.full_content = Settings([max_chars_per_result |-> Null])
    /\ ExtractRequest.full_content.t = "dict"
    /\ DOMAIN ExtractRequest.full_content.d = {}

\* C15 as stated: when the caller passes full_content=False (or omits it)
\* the forwarded full_content is False, for every tool configuration.
C15_FalseForwardedAsFalse ==
    (IsCall /\ ExtractInvoked /\ last.args.full_content = Flag(FALSE))
        => ExtractRequest.full_content = Flag(FALSE)

\* C15 (amended): when the caller passes full_content=False (or omits it)
\* the forwarded full_content is False if the tool has no
\* max_chars_per_extract, and {max_chars_per_result: N} if the tool was
\* configured with max_chars_per_extract = N.
C15_FalseForwardedUnlessToolLimit ==
    (IsCall /\ ExtractInvoked /\ last.args.full_content = Flag(FALSE)) =>
        LET N == tool[1].max_chars_per_extract
            sent == ExtractRequest.full_content
        IN  /\ N = Null => sent = Flag(FALSE)
            /\ N # Null => sent = Dict([max_chars_per_result |-> N[1]])
C15_Witness ==
    /\ IsCall /\ ExtractInvoked
    /\ last.args.full_content = Flag(FALSE)
    /\ tool[1].max_chars_per_extract = Some(5000)
    /\ ExtractRequest.full_content = Dict([max_chars_per_result |-> 5000])

IsAdapterSearch ==
    last.op \in {"ParallelSearchClient.search",
                 "AsyncParallelSearchClient.search"}
IsSearchRun ==
    last.op \in {"ParallelWebSearchTool._run", "ParallelWebSearchTool._arun"}
SearchInvoked == \E i \in 1..Len(sdk) : sdk[i].ev = "beta.search"
\* the call failed with this message and the vendor was not reached
FailedLocally(msg) == last.out = Raised("ValueError", msg) /\ ~SearchInvoked

\* C17: a search with neither an objective nor any search query (both
\* missing, or an empty string / empty list) fails with "Either 'objective'
\* or 'search_queries' must be provided" and the vendor SDK's search method
\* is not invoked; a search with at least one of the two passes the check
\* and reaches the SDK.  Sync and async adapter alike.
C17_ObjectiveOrQueriesRequired ==
    IsAdapterSearch =>
        LET neither == /\ last.args.objective \in {Null, Some("")}
                       /\ last.args.search_queries \in {Null, Some(<<>>)}
        IN  /\ neither => FailedLocally(
                    "Either 'objective' or 'search_queries' must be provided")
            /\ ~neither => SearchInvoked
C17_Witness ==
    /\ last.op = "AsyncParallelSearchClient.search"
    /\ last.args.objective = Some("") /\ last.args.search_queries = Some(<<>>)
    /\ last.out.kind = "raised" /\ last.out.msg = NoObjectiveMsg
    /\ ~SearchInvoked

\* the six checks of the search tool, each on its own
NothingToSearch(a) ==
    /\ a.objective = Null \/ Len(a.objective[1]) = 0
    /\ a.search_queries = Null \/ Len(a.search_queries[1]) = 0
TooManyQueries(a) == a.search_queries # Null /\ Len(a.search_queries[1]) > 5
QueryTooLong(a) ==
    /\ a.search_queries # Null
    /\ \E i \in 1..Len(a.search_queries[1]) : Len(a.search_queries[1][i]) > 200
ObjectiveTooLong(a) == a.objective # Null /\ Len(a.objective[1]) > 5000
MaxResultsOutOfRange(a) == a.max_results \notin 1..40
TooFewChars(a) == a.max_chars_per_result < 100

\* C18: the search tool applies its six checks in the order (1) objective
\* or queries present, (2) at most 5 queries, (3) every query at most 200
\* characters, (4) objective at most 5000 characters, (5) max_results in
\* 1..40, (6) max_chars_per_result at least 100: a call fails with the error
\* of the first check it violates, and reaches the vendor only if it
\* violates none.
C18_ChecksInOrder ==
    IsSearchRun =>
        LET a == last.args
        IN  IF NothingToSearch(a) THEN FailedLocally(NoObjectiveMsg)
            ELSE IF TooManyQueries(a) THEN FailedLocally(TooManyQueriesMsg)
            ELSE IF QueryTooLong(a) THEN FailedLocally(QueryTooLongMsg)
            ELSE IF ObjectiveTooLong(a) THEN FailedLocally(ObjectiveTooLongMsg)
            ELSE IF MaxResultsOutOfRange(a) THEN FailedLocally(MaxResultsRangeMsg)
            ELSE IF TooFewChars(a) THEN FailedLocally(CharsPerResultMsg)
            ELSE SearchInvoked
\* a call that violates checks 3, 4, 5 and 6 at once fails with the third
C18_Witness ==
    /\ IsSearchRun
    /\ ~TooManyQueries(last.args) /\ QueryTooLong(last.args)
    /\ ObjectiveTooLong(last.args) /\ MaxResultsOutOfRange(last.args)
    /\ TooFewChars(last.args)
    /\ last.out = Raised("ValueError",
                         "Each search query must be 200 characters or less")

\* C19: an otherwise valid search call with max_results outside 1..40
\* fails with "max_results must be between 1 and 40" and makes no vendor
\* call; with max_results 1, 40 or a value between, it passes validation and
\* returns the mocked vendor response.
C19_MaxResultsRange ==
    (/\ IsSearchRun
     /\ ~NothingToSearch(last.args) /\ ~TooManyQueries(last.args)
     /\ ~QueryTooLong(last.args) /\ ~ObjectiveTooLong(last.args)
     /\ ~TooFewChars(last.args)) =>
        /\ last.args.max_results \notin 1..40
              => FailedLocally("max_results must be between 1 and 40")
        /\ (last.args.max_results \in 1..40 /\ vendor.kind = "response")
              => /\ SearchInvoked
                 /\ last.out.kind = "returned"
                 /\ \A k \in DOMAIN vendor.body :
                        last.out.value[k] = vendor.body[k]
C19_Witness ==
    /\ IsSearchRun
    /\ last.args.max_results = 40 /\ last.args.max_chars_per_result = 100
    /\ last.out = Returned(MockedSearchResponse)

SearchValidationMsgs ==
    {NoObjectiveMsg, TooManyQueriesMsg, QueryTooLongMsg, ObjectiveTooLongMsg,
     MaxResultsRangeMsg, CharsPerResultMsg}

\* C20: an exception raised by the vendor search call is re-raised as a
\* ValueError whose message is "Error calling Parallel AI Search API: "
\* followed by the original message; a validation error of the search tool
\* is raised before the vendor's search method is invoked.
C20_SearchExceptionWrapped ==
    IsSearchRun =>
        /\ (SearchInvoked /\ vendor.kind = "raise")
              => last.out = Raised("ValueError",
                     "Error calling Parallel AI Search API: " \o vendor.msg)
        /\ (last.out.kind = "raised"
             /\ last.out.msg \in SearchValidationMsgs) => ~SearchInvoked
C20_Witness ==
    /\ last.op = "ParallelWebSearchTool._run"
    /\ SearchInvoked /\ vendor = ApiError
    /\ last.out = Raised("ValueError",
                         "Error calling Parallel AI Search API: API Error")

\* C29: for every vendor success record with a non-null excerpts list whose
\* full_content is absent or null, the item's content is the joined
\* excerpts and is never null.
C29_ExcerptsContentNeverNull ==
    (CallReturned /\ vendor.kind = "response") =>
        \A i \in 1..Len(VendorResults) :
            LET rec == VendorResults[i]
                item == last.out.value[i]
            IN  (/\ "excerpts" \in DOMAIN rec
                 /\ rec["excerpts"] # Null
                 /\ Get(rec, "full_content") = Null)
                    => /\ "content" \in DOMAIN item
                       /\ item["content"] # Null
                       /\ item["content"]
                            = Some(JoinedExcerpts(rec["excerpts"][1],
                                                  Len(rec["excerpts"][1])))

\* C30: an item of the returned list has an error_type field if and only
\* if it was produced from a vendor error record; no item produced from a
\* success record has one.
C30_ErrorTypeMarksErrors ==
    (CallReturned /\ vendor.kind = "response") =>
        /\ Len(last.out.value) = Len(VendorResults) + Len(VendorErrors)
        /\ \A i \in 1..Len(last.out.value) :
               ("error_type" \in DOMAIN last.out.value[i])
                   <=> (i > Len(VendorResults))
\* a success item next to the item of an error record that names no type
C30_Witness ==
    /\ CallReturned
    /\ Len(VendorResults) = 1 /\ Len(VendorErrors) = 1
    /\ "error_type" \notin DOMAIN VendorErrors[1]
    /\ "error_type" \notin DOMAIN last.out.value[1]
    /\ "error_type" \in DOMAIN last.out.value[2]
    /\ last.out.value[2]["error_type"] = Null

\* C21: a successful search returns the vendor response unmodified, with a
\* search_metadata block added if and only if include_metadata was
\* requested; the block's processor_used is the processor argument, its
\* query_count the number of search queries passed and its
\* actual_results_returned the number of items in the response's results.
C21_MetadataIffRequested ==
    (IsSearchRun /\ last.out.kind = "returned") =>
        LET res == last.out.value
            a == last.args
        IN  /\ \A k \in DOMAIN vendor.body : res[k] = vendor.body[k]
            /\ DOMAIN res \ DOMAIN vendor.body
                  = IF a.include_metadata THEN {"search_metadata"} ELSE {}
            /\ a.include_metadata =>
                  /\ res["search_metadata"].processor_used = a.processor
                  /\ res["search_metadata"].query_count
                        = IF a.search_queries = Null THEN 0
                          ELSE Len(a.search_queries[1])
                  /\ res["search_metadata"].actual_results_returned
                        = Len(vendor.body.results)
C21_Witness ==
    /\ IsSearchRun /\ last.out.kind = "returned"
    /\ last.args.include_metadata /\ last.args.processor = "pro"
    /\ last.args.search_queries = Some(<<"query1", "query2">>)
    /\ last.out.value["search_metadata"].processor_used = "pro"
    /\ last.out.value["search_metadata"].query_count = 2
    /\ last.out.value["search_metadata"].actual_results_returned = 1
    /\ last.out.value["search_id"] = "test-123"

\* C22: every extract request forwarded to the vendor whose fetch_policy
\* has max_age_seconds set has max_age_seconds of at least 600.
C22_MaxAgeAtLeast600 ==
    (IsCall /\ ExtractInvoked /\ ExtractRequest.fetch_policy # Null) =>
        LET fp == ExtractRequest.fetch_policy[1]
        IN  "max_age_seconds" \in DOMAIN fp => fp["max_age_seconds"] >= 600

\* C24: a call that violates parameter validation (empty urls) is rejected
\* for that reason before the credential is resolved and before the vendor
\* adapter is constructed.
C24_ValidationBeforeCredential ==
    (IsCall /\ last.args.urls = <<>>) =>
        /\ last.out.kind = "raised"
        /\ last.out.msg \in {NoUrlsMsg, WrapPrefix \o NoUrlsMsg}
        /\ ~ClientCreated

\* C25: a boolean excerpts value reaches the adapter unchanged; a boolean
\* full_content value reaches it unchanged when the tool has no
\* max_chars_per_extract; an ExcerptSettings, FullContentSettings or
\* FetchPolicy object reaches it as a plain map of exactly the object's
\* non-null fields; an absent fetch_policy is forwarded as null.
C25_ParameterNormalization ==
    (IsCall /\ ExtractInvoked) =>
        LET a == last.args
            req == ExtractRequest
        IN  /\ a.excerpts.t = "bool" => req.excerpts = a.excerpts
            /\ (a.full_content.t = "bool"
                 /\ tool[1].max_chars_per_extract = Null)
                  => req.full_content = a.full_content
            /\ a.excerpts.t = "settings"
                  => /\ req.excerpts.t = "dict"
                     /\ IsFlattened(req.excerpts.d, a.excerpts.fields)
            /\ a.full_content.t = "settings"
                  => /\ req.full_content.t = "dict"
                     /\ IsFlattened(req.full_content.d, a.full_content.fields)
            /\ a.fetch_policy # Null
                  => /\ req.fetch_policy # Null
                     /\ IsFlattened(req.fetch_policy[1], a.fetch_policy[1])
            /\ a.fetch_policy = Null => req.fetch_policy = Null
\* settings that set no limit and a policy that sets only a timeout
C25_Witness ==
    /\ IsCall /\ ExtractInvoked
    /\ last.args.excerpts = Settings([max_chars_per_result |-> Null])
    /\ last.args.fetch_policy # Null
    /\ last.args.fetch_policy[1].max_age_seconds = Null
    /\ last.args.fetch_policy[1].timeout_seconds = Some(30)
    /\ DOMAIN ExtractRequest.excerpts.d = {}
    /\ DOMAIN ExtractRequest.fetch_policy[1]
          = {"timeout_seconds", "disable_cache_fallback"}

\* C26: the timeout passed to the vendor extract call is 5 seconds times
\* the number of urls of the request, duplicates counted, on the sync and
\* the async adapter.
C26_TimeoutPerUrl ==
    (IsCall /\ ExtractInvoked) =>
        ExtractRequest.timeout = 5 * Len(last.args.urls)
C26_Witness ==
    /\ last.op = "_run" /\ ExtractInvoked
    /\ last.args.urls = <<"https://example1.com", "https://example1.com">>
    /\ ExtractRequest.timeout = 10

\* the keyword arguments the vendor SDK's search method was invoked with
SearchRequest == sdk[CHOOSE i \in 1..Len(sdk) : sdk[i].ev = "beta.search"]

\* C27: the timeout passed to the vendor search call is 90 seconds when
\* the processor is "pro" and 10 seconds for every other processor value,
\* on the sync and the async search adapter.
C27_SearchTimeout ==
    (IsAdapterSearch /\ SearchInvoked) =>
        SearchRequest.timeout
            = IF last.args.processor = "pro" THEN 90 ELSE 10
C27_Witness ==
    /\ last.op = "ParallelSearchClient.search" /\ SearchInvoked
    /\ last.args.processor = "ultra"
    /\ SearchRequest.timeout = 10

\* the requests forwarded to the vendor among some SDK activity
Requests(events) == SelectSeq(events, LAMBDA x : x.ev = "beta.extract")

\* C28: for the same tool configuration, call arguments and vendor
\* behaviour, _run and _arun forward the same request to the vendor and
\* produce the same outcome: the same returned list or the same wrapped
\* error.
C28_SyncAsyncEquivalent ==
    IsCall =>
        LET s == _run(tool[1], env, last.args, vendor)
            a == _arun(tool[1], env, last.args, vendor)
        IN  /\ s.out = a.out
            /\ Requests(s.sdk) = Requests(a.sdk)
            /\ last.out = s.out
            /\ Requests(sdk) = Requests(s.sdk)
\* an async call on a tool with a limit, answered with one item
C28_Witness ==
    /\ last.op = "_arun" /\ ExtractInvoked
    /\ tool[1].max_chars_per_extract = Some(5000)
    /\ last.args.full_content = Flag(FALSE)
    /\ ExtractRequest.full_content = Dict([max_chars_per_result |-> 5000])
    /\ last.out.kind = "returned" /\ Len(last.out.value) = 1

\* what call c produces when it is the only call on the tool
Alone(c) ==
    IF c.isAsync THEN _arun(tool[1], env, c.args, vendor)
    ELSE _run(tool[1], env, c.args, vendor)

\* C23: no call modifies the tool instance's configuration, and each call
\* builds its own vendor client; for every interleaving of concurrent calls
\* on one tool instance, each call's forwarded request and returned result
\* equal what the call produces when run alone.
C23_ConcurrentCallsIndependent ==
    \A i \in 1..Len(calls) :
        /\ calls[i].self = tool[1]
        /\ calls[i].pc \in {"format", "done"}
              => Requests(calls[i].events) = Requests(Alone(calls[i]).sdk)
        /\ calls[i].pc = "done"
              => /\ calls[i].out = Some(Alone(calls[i]).out)
                 /\ calls[i].events = Alone(calls[i]).sdk
\* a later call with other arguments has returned while an earlier one is
\* between building its parameters and calling the vendor
C23_Witness ==
    /\ Len(calls) = 2
    /\ calls[1].pc = "extract" /\ calls[2].pc = "done"
    /\ calls[1].args # calls[2].args
    /\ calls[1].isAsync # calls[2].isAsync
    /\ calls[2].out # Null /\ calls[2].out[1].kind = "returned"
    /\ Len(calls[2].events) = 2

====
